---- MODULE Spec2Model ----
(***************************************************************************)
(* Time-loop puzzle platformer: the fixed-timestep scheduler (Game in      *)
(* src/js/entities.js), the recording/replay protocol (src/js/replay.js),  *)
(* the physics and collision resolver (physics.js), the world entities     *)
(* (src/js/entities.js) and level construction (src/js/levels.js).         *)
(*                                                                         *)
(* Lengths are integers counted in half pixels (Unit model units make one  *)
(* pixel), so that GRAVITY = 0.5 px/tick is the integer 1 and every        *)
(* position and velocity the program computes is represented exactly.      *)
(* Time is counted in half ticks (TICK_DURATION = 2).                      *)
(***************************************************************************)
EXTENDS Integers, Sequences, FiniteSets, TLC

(***************************************************************************)
(* Bounds of the model                                                     *)
(***************************************************************************)
\* CONFIG.LOOP_TICKS is 1200 in the program; the model runs short loops.
LOOP_TICKS == 3
\* Attempts (loopIndex values) in which ticks are simulated.
MaxLoops == 2
\* The longest frame, in ticks of elapsed time.
MaxFrameTicks == 4

(***************************************************************************)
(* CONFIG (utils.js)                                                       *)
(***************************************************************************)
Unit == 2
px(n) == n * Unit

TICK_DURATION == 2
CANVAS_WIDTH == px(800)
CANVAS_HEIGHT == px(600)
GRAVITY == Unit \div 2
PLAYER_SPEED == px(5)
PLAYER_JUMP == px(-12)
PLAYER_WIDTH == px(32)
PLAYER_HEIGHT == px(32)
SWITCH_SIZE == px(40)
DOOR_WIDTH == px(16)
DOOR_HEIGHT == px(64)

Abs(n) == IF n < 0 THEN -n ELSE n
Min(a, b) == IF a < b THEN a ELSE b

\* JavaScript's undefined: an array hole, a missing property.
undefined == [undefined |-> TRUE]

(***************************************************************************)
(* Geometry (utils.js)                                                     *)
(***************************************************************************)
aabbOverlap(a, b) ==
    /\ a.x < b.x + b.width
    /\ a.x + a.width > b.x
    /\ a.y < b.y + b.height
    /\ a.y + a.height > b.y

pointInRect(ptx, pty, rect) ==
    /\ ptx >= rect.x
    /\ ptx <= rect.x + rect.width
    /\ pty >= rect.y
    /\ pty <= rect.y + rect.height

\* ua = na / denom and ub = nb / denom both lie in [0, 1]; the quotients are
\* compared without dividing.
InUnitRange(num, denom) ==
    IF denom > 0 THEN 0 <= num /\ num <= denom
                 ELSE denom <= num /\ num <= 0

lineIntersectsLine(x1, y1, x2, y2, x3, y3, x4, y4) ==
    LET denom == (y4 - y3) * (x2 - x1) - (x4 - x3) * (y2 - y1)
        na == (x4 - x3) * (y1 - y3) - (y4 - y3) * (x1 - x3)
        nb == (x2 - x1) * (y1 - y3) - (y2 - y1) * (x1 - x3)
    IN IF denom = 0 THEN FALSE
       ELSE InUnitRange(na, denom) /\ InUnitRange(nb, denom)

lineIntersectsRect(x1, y1, x2, y2, rect) ==
    LET left == rect.x
        right == rect.x + rect.width
        top == rect.y
        bottom == rect.y + rect.height
    IN \/ pointInRect(x1, y1, rect)
       \/ pointInRect(x2, y2, rect)
       \/ lineIntersectsLine(x1, y1, x2, y2, left, top, right, top)
       \/ lineIntersectsLine(x1, y1, x2, y2, left, bottom, right, bottom)
       \/ lineIntersectsLine(x1, y1, x2, y2, left, top, left, bottom)
       \/ lineIntersectsLine(x1, y1, x2, y2, right, top, right, bottom)

(***************************************************************************)
(* Entities (src/js/entities.js)                                           *)
(***************************************************************************)
createPlayer(x, y) ==
    [type |-> "player", x |-> x, y |-> y, vx |-> 0, vy |-> 0,
     width |-> PLAYER_WIDTH, height |-> PLAYER_HEIGHT,
     grounded |-> FALSE, facingRight |-> TRUE, isActive |-> TRUE]

\* recording is a reference: the index of the recording object in heap.
createGhost(x, y, recording) ==
    [type |-> "ghost", x |-> x, y |-> y, vx |-> 0, vy |-> 0,
     width |-> PLAYER_WIDTH, height |-> PLAYER_HEIGHT,
     grounded |-> FALSE, facingRight |-> TRUE, isActive |-> TRUE,
     recording |-> recording]

createWall(x, y, width, height) ==
    [type |-> "wall", x |-> x, y |-> y, width |-> width, height |-> height]

\* generateId() yields a fresh string; the model passes the identity in: the
\* position of the descriptor in the level, distinct within one entity set.
createSwitch(id, x, y, linkedIds) ==
    [type |-> "switch", id |-> id, x |-> x, y |-> y,
     width |-> SWITCH_SIZE, height |-> SWITCH_SIZE \div 2,
     isPressed |-> FALSE, linkedIds |-> linkedIds]

createDoor(id, x, y, height, initiallyOpen) ==
    [type |-> "door", id |-> id, x |-> x, y |-> y,
     width |-> DOOR_WIDTH, height |-> height,
     isOpen |-> initiallyOpen, initiallyOpen |-> initiallyOpen]

createLaser(id, x1, y1, x2, y2, linkedIds) ==
    [type |-> "laser", id |-> id, x1 |-> x1, y1 |-> y1, x2 |-> x2, y2 |-> y2,
     isBlocked |-> FALSE, linkedIds |-> linkedIds]

createGoal(x, y, width, height) ==
    [type |-> "goal", x |-> x, y |-> y, width |-> width, height |-> height,
     isReached |-> FALSE]

SeqRange(s) == {s[i] : i \in DOMAIN s}

\* Mutant: a pressed switch stays pressed.
updateSwitch_latched(sw, solidEntities) ==
    [sw EXCEPT !.isPressed =
        \/ sw.isPressed
        \/ \E i \in DOMAIN solidEntities :
              solidEntities[i].isActive /\ aabbOverlap(solidEntities[i], sw)]

updateSwitch(sw, solidEntities) ==
    [sw EXCEPT !.isPressed =
        \E i \in DOMAIN solidEntities :
            solidEntities[i].isActive /\ aabbOverlap(solidEntities[i], sw)]

\* Mutant: the filter forgets the linkedIds test.
linkedSwitches_anySwitch(door, allEntities) ==
    {i \in DOMAIN allEntities : allEntities[i].type = "switch"}

\* The linked switches of a door: the filter over all entities.
linkedSwitches(door, allEntities) ==
    {i \in DOMAIN allEntities :
        /\ allEntities[i].type = "switch"
        /\ door.id \in SeqRange(allEntities[i].linkedIds)}

updateDoor(door, allEntities) ==
    LET linked == linkedSwitches(door, allEntities)
    IN IF linked = {}
       THEN [door EXCEPT !.isOpen = door.initiallyOpen]
       ELSE [door EXCEPT !.isOpen = \E i \in linked : allEntities[i].isPressed]

updateLaser(laser, solidEntities) ==
    [laser EXCEPT !.isBlocked =
        \E i \in DOMAIN solidEntities :
            /\ solidEntities[i].isActive
            /\ lineIntersectsRect(laser.x1, laser.y1, laser.x2, laser.y2,
                                  solidEntities[i])]

(***************************************************************************)
(* Physics (physics.js)                                                    *)
(***************************************************************************)
\* Mutant: the jump does not look at grounded.
applyInput_airJump(entity, input) ==
    LET e1 == IF input.left
              THEN [entity EXCEPT !.vx = -PLAYER_SPEED, !.facingRight = FALSE]
              ELSE IF input.right
              THEN [entity EXCEPT !.vx = PLAYER_SPEED, !.facingRight = TRUE]
              ELSE [entity EXCEPT !.vx = 0]
    IN IF input.up
       THEN [e1 EXCEPT !.vy = PLAYER_JUMP, !.grounded = FALSE]
       ELSE e1

applyInput(entity, input) ==
    LET e1 == IF input.left
              THEN [entity EXCEPT !.vx = -PLAYER_SPEED, !.facingRight = FALSE]
              ELSE IF input.right
              THEN [entity EXCEPT !.vx = PLAYER_SPEED, !.facingRight = TRUE]
              ELSE [entity EXCEPT !.vx = 0]
    IN IF input.up /\ e1.grounded
       THEN [e1 EXCEPT !.vy = PLAYER_JUMP, !.grounded = FALSE]
       ELSE e1

applyPhysics(entity) ==
    LET vy == entity.vy + GRAVITY
    IN [entity EXCEPT !.vy = vy,
                      !.x = entity.x + entity.vx,
                      !.y = entity.y + vy,
                      !.grounded = FALSE]

\* The centres a.x + a.width / 2 are exact: every width and height is a whole
\* number of pixels, an even number of model units.
getOverlapX(a, b) ==
    LET aCenter == a.x + a.width \div 2
        bCenter == b.x + b.width \div 2
    IN IF aCenter < bCenter THEN b.x - (a.x + a.width)
                            ELSE (b.x + b.width) - a.x

getOverlapY(a, b) ==
    LET aCenter == a.y + a.height \div 2
        bCenter == b.y + b.height \div 2
    IN IF aCenter < bCenter THEN b.y - (a.y + a.height)
                            ELSE (b.y + b.height) - a.y

\* Mutant: the left boundary is not enforced.
clampToBounds_noLeft(entity) ==
    LET e2 == IF entity.x + entity.width > CANVAS_WIDTH
              THEN [entity EXCEPT !.x = CANVAS_WIDTH - entity.width, !.vx = 0]
              ELSE entity
        e3 == IF e2.y + e2.height > CANVAS_HEIGHT
              THEN [e2 EXCEPT !.y = CANVAS_HEIGHT - e2.height, !.vy = 0,
                              !.grounded = TRUE]
              ELSE e2
    IN IF e3.y < 0 THEN [e3 EXCEPT !.y = 0, !.vy = 0] ELSE e3

clampToBounds(entity) ==
    LET e1 == IF entity.x < 0
              THEN [entity EXCEPT !.x = 0, !.vx = 0] ELSE entity
        e2 == IF e1.x + e1.width > CANVAS_WIDTH
              THEN [e1 EXCEPT !.x = CANVAS_WIDTH - e1.width, !.vx = 0] ELSE e1
        e3 == IF e2.y + e2.height > CANVAS_HEIGHT
              THEN [e2 EXCEPT !.y = CANVAS_HEIGHT - e2.height, !.vy = 0,
                              !.grounded = TRUE]
              ELSE e2
    IN IF e3.y < 0 THEN [e3 EXCEPT !.y = 0, !.vy = 0] ELSE e3

isSolid(world) ==
    \/ world.type = "wall"
    \/ world.type = "door" /\ ~world.isOpen

\* One iteration of the loop over worldEntities.
\* Mutant: landing keeps the vertical velocity.
resolveOne_keepsFallSpeed(entity, world) ==
    IF ~isSolid(world) \/ ~aabbOverlap(entity, world) THEN entity
    ELSE LET overlapX == getOverlapX(entity, world)
             overlapY == getOverlapY(entity, world)
         IN IF Abs(overlapX) < Abs(overlapY)
            THEN [entity EXCEPT !.x = entity.x + overlapX, !.vx = 0]
            ELSE [entity EXCEPT !.y = entity.y + overlapY,
                                !.grounded = IF overlapY < 0 THEN TRUE
                                             ELSE entity.grounded]

resolveOne(entity, world) ==
    IF ~isSolid(world) \/ ~aabbOverlap(entity, world) THEN entity
    ELSE LET overlapX == getOverlapX(entity, world)
             overlapY == getOverlapY(entity, world)
         IN IF Abs(overlapX) < Abs(overlapY)
            THEN [entity EXCEPT !.x = entity.x + overlapX, !.vx = 0]
            ELSE [entity EXCEPT !.y = entity.y + overlapY, !.vy = 0,
                                !.grounded = IF overlapY < 0 THEN TRUE
                                             ELSE entity.grounded]

RECURSIVE resolveFrom(_, _, _)
resolveFrom(entity, worldEntities, i) ==
    IF i > Len(worldEntities) THEN entity
    ELSE resolveFrom(resolveOne(entity, worldEntities[i]), worldEntities, i + 1)

resolveCollisions(entity, worldEntities) ==
    clampToBounds(resolveFrom(entity, worldEntities, 1))

(***************************************************************************)
(* Levels (src/js/levels.js)                                               *)
(***************************************************************************)
\* def[name] || dflt for a number: absent or 0 gives dflt.
Field(def, name, dflt) ==
    IF name \in DOMAIN def /\ def[name] # 0 THEN def[name] ELSE dflt

\* def.linkedIds || []
LinkedIdsOf(def) ==
    IF "linkedIds" \in DOMAIN def THEN def.linkedIds ELSE <<>>

KnownTypes == {"wall", "switch", "door", "laser", "goal"}

\* The entity of the descriptor at position k; its id is k.
createEntity(def, k) ==
    CASE def.type = "wall" -> createWall(def.x, def.y, def.width, def.height)
      [] def.type = "switch" -> createSwitch(k, def.x, def.y, <<>>)
      [] def.type = "door" ->
            createDoor(k, def.x, def.y, Field(def, "height", DOOR_HEIGHT), FALSE)
      [] def.type = "laser" ->
            createLaser(k, def.x1, def.y1, def.x2, def.y2,
                        LinkedIdsOf(def))
      [] def.type = "goal" ->
            createGoal(def.x, def.y, Field(def, "width", px(48)),
                       Field(def, "height", px(48)))

\* doorRefs[idx] after the first loop: the id of the last door descriptor
\* whose linkedIndex is idx; 0 (no id, falsy) stands for undefined.
doorRefs(level, idx) ==
    LET ks == {k \in DOMAIN level.entities :
                  /\ level.entities[k].type = "door"
                  /\ "linkedIndex" \in DOMAIN level.entities[k]
                  /\ level.entities[k].linkedIndex = idx}
    IN IF ks = {} THEN 0
       ELSE CHOOSE k \in ks : \A j \in ks : j <= k

\* The second loop: a switch with a linkedDoorIndex gets the door's id.
resolveLinks(level, def, entity) ==
    IF def.type = "switch" /\ "linkedDoorIndex" \in DOMAIN def
    THEN LET doorId == doorRefs(level, def.linkedDoorIndex)
         IN IF doorId # 0
            THEN [entity EXCEPT !.linkedIds = Append(@, doorId)]
            ELSE entity
    ELSE entity

\* Mutant: construction stops at the first descriptor of unknown kind.
RECURSIVE createFrom_abortsOnUnknown(_, _)
createFrom_abortsOnUnknown(level, k) ==
    IF k > Len(level.entities) THEN <<>>
    ELSE LET def == level.entities[k]
         IN IF def.type \in KnownTypes
            THEN <<resolveLinks(level, def, createEntity(def, k))>>
                     \o createFrom_abortsOnUnknown(level, k + 1)
            ELSE <<>>

RECURSIVE createFrom(_, _)
createFrom(level, k) ==
    IF k > Len(level.entities) THEN <<>>
    ELSE LET def == level.entities[k]
         IN IF def.type \in KnownTypes
            THEN <<resolveLinks(level, def, createEntity(def, k))>>
                     \o createFrom(level, k + 1)
            ELSE createFrom(level, k + 1)

createEntities(level) == createFrom(level, 1)

(***************************************************************************)
(* ReplaySystem (src/js/replay.js).  A recording is an object shared by     *)
(* reference; heap holds the objects and a reference is an index into it.  *)
(***************************************************************************)
createRecording(loopIndex) ==
    [id |-> loopIndex, loopIndex |-> loopIndex, inputs |-> <<>>,
     reachedGoal |-> FALSE, endTick |-> 0]

copySnapshot(inputState) ==
    [left |-> inputState.left, right |-> inputState.right, up |-> inputState.up,
     down |-> inputState.down, action |-> inputState.action]

\* inputs[tick] = v on a JavaScript array (tick is 0-based): an index past
\* the end leaves holes before it.
arraySet(arr, tick, v) ==
    [i \in 1..(IF tick + 1 > Len(arr) THEN tick + 1 ELSE Len(arr)) |->
        IF i = tick + 1 THEN v
        ELSE IF i <= Len(arr) THEN arr[i] ELSE undefined]

\* arr.slice(0, n), holes kept.
arraySlice(arr, n) == SubSeq(arr, 1, Min(n, Len(arr)))

\* Mutant: the snapshot is stored one index too far.
recordTick_skipsIndex(recording, tick, inputState) ==
    [recording EXCEPT !.inputs = arraySet(@, tick + 1, copySnapshot(inputState))]

recordTick(recording, tick, inputState) ==
    [recording EXCEPT !.inputs = arraySet(@, tick, copySnapshot(inputState))]

\* Mutant: the bound test is off by one.
getInputAtTick_offByOne(recording, tick) ==
    IF tick + 1 >= Len(recording.inputs) THEN undefined
    ELSE recording.inputs[tick + 1]

\* null and undefined are both falsy for the caller; null is modelled as
\* undefined.
getInputAtTick(recording, tick) ==
    IF tick >= Len(recording.inputs) THEN undefined
    ELSE recording.inputs[tick + 1]

\* Mutant: the slice drops the last snapshot before endTick.
finalizeRecording_dropsLast(recording, endTick, reachedGoal) ==
    [recording EXCEPT !.endTick = endTick,
                      !.reachedGoal = reachedGoal,
                      !.inputs = arraySlice(@, endTick - 1)]

finalizeRecording(recording, endTick, reachedGoal) ==
    [recording EXCEPT !.endTick = endTick,
                      !.reachedGoal = reachedGoal,
                      !.inputs = arraySlice(@, endTick)]

isGhostActive(recording, tick) == tick < Len(recording.inputs)

(***************************************************************************)
(* Game (src/js/entities.js): the simulation state is the record g         *)
(***************************************************************************)
updatePlayer(g, input) ==
    IF ~g.player.isActive THEN g
    ELSE [g EXCEPT !.player =
            resolveCollisions(applyPhysics(applyInput(g.player, input)),
                              g.entities)]

\* Mutant: a ghost is stopped by the player as by a wall.
updateGhost_blockedByPlayer(g, i) ==
    LET ghost == g.ghosts[i]
        input == getInputAtTick(g.heap[ghost.recording], g.localTick)
    IN IF ~ghost.isActive THEN g
       ELSE IF input = undefined
       THEN [g EXCEPT !.ghosts[i].isActive = FALSE]
       ELSE [g EXCEPT !.ghosts[i] =
               resolveCollisions(applyPhysics(applyInput(ghost, input)),
                                 Append(g.entities,
                                        [g.player EXCEPT !.type = "wall"]))]

updateGhost(g, i) ==
    LET ghost == g.ghosts[i]
        input == getInputAtTick(g.heap[ghost.recording], g.localTick)
    IN IF ~ghost.isActive THEN g
       ELSE IF input = undefined
       THEN [g EXCEPT !.ghosts[i].isActive = FALSE]
       ELSE [g EXCEPT !.ghosts[i] =
               resolveCollisions(applyPhysics(applyInput(ghost, input)),
                                 g.entities)]

RECURSIVE updateGhostsFrom(_, _)
updateGhostsFrom(g, i) ==
    IF i > Len(g.ghosts) THEN g
    ELSE updateGhostsFrom(updateGhost(g, i), i + 1)

\* [this.player, ...this.ghosts.filter(g => g.isActive)]
solidEntities(g) ==
    <<g.player>> \o SelectSeq(g.ghosts, LAMBDA gh : gh.isActive)

updateSwitches(g) ==
    LET solid == solidEntities(g)
    IN [g EXCEPT !.entities =
          [k \in DOMAIN g.entities |->
              IF g.entities[k].type = "switch"
              THEN updateSwitch(g.entities[k], solid) ELSE g.entities[k]]]

updateDoors(g) ==
    [g EXCEPT !.entities =
        [k \in DOMAIN g.entities |->
            IF g.entities[k].type = "door"
            THEN updateDoor(g.entities[k], g.entities) ELSE g.entities[k]]]

updateLasers(g) ==
    LET solid == solidEntities(g)
    IN [g EXCEPT !.entities =
          [k \in DOMAIN g.entities |->
              IF g.entities[k].type = "laser"
              THEN updateLaser(g.entities[k], solid) ELSE g.entities[k]]]

\* Mutant: doors are updated before switches.
updateWorldEntities_doorsFirst(g) ==
    updateLasers(updateSwitches(updateDoors(g)))

\* Mutant: inactive ghosts count as bodies for switches and lasers.
updateWorldEntities_countsInactive(g) ==
    LET all == [g EXCEPT !.ghosts =
                   [i \in DOMAIN g.ghosts |->
                       [g.ghosts[i] EXCEPT !.isActive = TRUE]]]
    IN [updateLasers(updateDoors(updateSwitches(all))) EXCEPT
           !.ghosts = g.ghosts]

updateWorldEntities(g) == updateLasers(updateDoors(updateSwitches(g)))

\* Mutant: the world entities are carried over into the next attempt.
startNewLoop_keepEntities(g) ==
    LET spawn == g.currentLevel.spawnPoint
    IN [g EXCEPT
          !.localTick = 0,
          !.heap = Append(@, createRecording(g.loopIndex)),
          !.currentRecording = Len(g.heap) + 1,
          !.player = createPlayer(spawn.x, spawn.y),
          !.ghosts = [i \in DOMAIN g.recordings |->
                         createGhost(spawn.x, spawn.y, g.recordings[i])]]

\* Mutant: the ghosts are spawned newest recording first.
startNewLoop_newestFirst(g) ==
    LET spawn == g.currentLevel.spawnPoint
        n == Len(g.recordings)
    IN [g EXCEPT
          !.localTick = 0,
          !.heap = Append(@, createRecording(g.loopIndex)),
          !.currentRecording = Len(g.heap) + 1,
          !.player = createPlayer(spawn.x, spawn.y),
          !.ghosts = [i \in DOMAIN g.recordings |->
                         createGhost(spawn.x, spawn.y, g.recordings[n + 1 - i])],
          !.entities = createEntities(g.currentLevel)]

startNewLoop(g) ==
    LET spawn == g.currentLevel.spawnPoint
    IN [g EXCEPT
          !.localTick = 0,
          !.heap = Append(@, createRecording(g.loopIndex)),
          !.currentRecording = Len(g.heap) + 1,
          !.player = createPlayer(spawn.x, spawn.y),
          !.ghosts = [i \in DOMAIN g.recordings |->
                         createGhost(spawn.x, spawn.y, g.recordings[i])],
          !.entities = createEntities(g.currentLevel)]

endLoop(g, reachedGoal) ==
    LET g1 == [g EXCEPT
                 !.heap[g.currentRecording] =
                     finalizeRecording(@, g.localTick, reachedGoal),
                 !.recordings = Append(@, g.currentRecording)]
    IN IF reachedGoal
       THEN [g1 EXCEPT !.levelComplete = TRUE]
       ELSE startNewLoop([g1 EXCEPT !.loopIndex = @ + 1])

\* entities.find(e => e.type === 'goal'): the first goal, 0 when none.
findGoal(entities) ==
    LET ks == {k \in DOMAIN entities : entities[k].type = "goal"}
    IN IF ks = {} THEN 0 ELSE CHOOSE k \in ks : \A j \in ks : k <= j

\* Mutant: the overlap test of the win condition is closed (touching counts).
winCondition_touching(g) ==
    LET k == findGoal(g.entities)
    IN /\ k # 0
       /\ g.player.isActive
       /\ g.player.x <= g.entities[k].x + g.entities[k].width
       /\ g.player.x + g.player.width >= g.entities[k].x
       /\ g.player.y <= g.entities[k].y + g.entities[k].height
       /\ g.player.y + g.player.height >= g.entities[k].y

\* Mutant: a blocked laser keeps the goal from being reached.
winCondition_lasersGuard(g) ==
    LET k == findGoal(g.entities)
    IN /\ k # 0 /\ g.player.isActive /\ aabbOverlap(g.player, g.entities[k])
       /\ \A l \in DOMAIN g.entities :
             g.entities[l].type = "laser" => ~g.entities[l].isBlocked

winCondition(g) ==
    LET k == findGoal(g.entities)
    IN k # 0 /\ g.player.isActive /\ aabbOverlap(g.player, g.entities[k])

checkWinCondition(g) ==
    IF winCondition(g) THEN endLoop(g, TRUE) ELSE g

\* Mutant: the loop boundary is tested with > instead of >=.
simulationTick_lateBoundary(g, inputState) ==
    LET g1 == [g EXCEPT !.heap[g.currentRecording] =
                  recordTick(@, g.localTick, inputState)]
        g2 == updatePlayer(g1, inputState)
        g3 == updateGhostsFrom(g2, 1)
        g4 == updateWorldEntities(g3)
        g5 == checkWinCondition(g4)
        g6 == [g5 EXCEPT !.localTick = @ + 1, !.globalTick = @ + 1]
    IN IF g6.localTick > LOOP_TICKS THEN endLoop(g6, FALSE) ELSE g6

simulationTick(g, inputState) ==
    LET g1 == [g EXCEPT !.heap[g.currentRecording] =
                  recordTick(@, g.localTick, inputState)]
        g2 == updatePlayer(g1, inputState)
        g3 == updateGhostsFrom(g2, 1)
        g4 == updateWorldEntities(g3)
        g5 == checkWinCondition(g4)
        g6 == [g5 EXCEPT !.localTick = @ + 1, !.globalTick = @ + 1]
    IN IF g6.localTick >= LOOP_TICKS THEN endLoop(g6, FALSE) ELSE g6

\* Mutant: the recordings list survives the restart.
restartLevel_keepsRecordings(g) ==
    startNewLoop([g EXCEPT !.globalTick = 0, !.loopIndex = 1,
                           !.levelComplete = FALSE])

\* restartLevel: the recordings list is dropped, and with it every recording
\* object but the fresh one, so the heap restarts.
restartLevel(g) ==
    startNewLoop([g EXCEPT !.globalTick = 0, !.loopIndex = 1,
                           !.recordings = <<>>, !.heap = <<>>,
                           !.levelComplete = FALSE])

\* The state Game.init(level) leaves: the object's initial fields, then
\* startNewLoop.
initGame(level) ==
    startNewLoop([globalTick |-> 0, localTick |-> 0, loopIndex |-> 1,
                  player |-> undefined, ghosts |-> <<>>, entities |-> <<>>,
                  currentRecording |-> 0, recordings |-> <<>>, heap |-> <<>>,
                  currentLevel |-> level, levelComplete |-> FALSE])

(***************************************************************************)
(* Levels of the model (the shape of Levels.data) and the keys the user    *)
(* operates in each                                                        *)
(***************************************************************************)
Floor == [type |-> "wall", x |-> px(0), y |-> px(568),
          width |-> px(800), height |-> px(32)]
SpawnOnFloor == [x |-> px(50), y |-> px(536)]

\* A goal two steps to the right of the spawn point, behind a laser; one
\* step to the right a switch that opens a door further on.
LevelGoal ==
    [id |-> "goal", spawnPoint |-> SpawnOnFloor,
     entities |-> <<
        Floor,
        [type |-> "switch", x |-> px(84), y |-> px(548), linkedDoorIndex |-> 0],
        [type |-> "door", x |-> px(400), y |-> px(504), height |-> px(64),
                          linkedIndex |-> 0],
        [type |-> "laser", x1 |-> px(85), y1 |-> px(500),
                           x2 |-> px(85), y2 |-> px(568)],
        [type |-> "goal", x |-> px(90), y |-> px(520),
                          width |-> px(48), height |-> px(48)] >>]

\* A switch under the spawn point (left when the player steps right), its
\* door two steps to the right, and a door no switch links to.
LevelDoor ==
    [id |-> "door", spawnPoint |-> SpawnOnFloor,
     entities |-> <<
        Floor,
        [type |-> "switch", x |-> px(12), y |-> px(548), linkedDoorIndex |-> 0],
        [type |-> "door", x |-> px(88), y |-> px(504), height |-> px(64),
                          linkedIndex |-> 0],
        [type |-> "door", x |-> px(400), y |-> px(504), height |-> px(64)] >>]

\* Two switches linked to one door that requires both.
LevelTwoHands ==
    [id |-> "twohands", spawnPoint |-> SpawnOnFloor,
     entities |-> <<
        Floor,
        [type |-> "switch", x |-> px(12), y |-> px(548), linkedDoorIndex |-> 0],
        [type |-> "switch", x |-> px(88), y |-> px(548), linkedDoorIndex |-> 0],
        [type |-> "door", x |-> px(400), y |-> px(504), height |-> px(64),
                          linkedIndex |-> 0, requiresBoth |-> TRUE] >>]

\* A goal above the spawn point, reached on the second tick of a jump.
LevelJump ==
    [id |-> "jump", spawnPoint |-> SpawnOnFloor,
     entities |-> <<
        Floor,
        [type |-> "goal", x |-> px(50), y |-> px(472),
                          width |-> px(48), height |-> px(48)] >>]

NoKeys == [left |-> FALSE, right |-> FALSE, up |-> FALSE,
           down |-> FALSE, action |-> FALSE]

\* Frame deltas, in half ticks: any elapsed time up to the longest frame, or
\* whole ticks only.
\* The time that passes between the last frame and a press of the pause key:
\* none, or more than one tick.
PauseWaits == {0, TICK_DURATION + 1}

AnyDelta == 0..(MaxFrameTicks * TICK_DURATION)
WholeTicks == {n * TICK_DURATION : n \in 0..MaxFrameTicks}

Scenarios ==
    { [level |-> LevelGoal, userKeys |-> {"right"}, deltas |-> AnyDelta],
      [level |-> LevelDoor, userKeys |-> {"right"}, deltas |-> WholeTicks],
      [level |-> LevelTwoHands, userKeys |-> {"right"}, deltas |-> WholeTicks],
      [level |-> LevelJump, userKeys |-> {"up"}, deltas |-> WholeTicks] }

(***************************************************************************)
(* State                                                                   *)
(***************************************************************************)
VARIABLES
    keys,              \* InputSystem.keys
    userKeys,          \* the keys the user presses and releases in this run
    deltas,            \* the elapsed times between frames in this run
    globalTick, localTick, loopIndex,
    player, ghosts, entities,
    currentRecording,  \* reference into heap
    recordings,        \* references into heap, oldest first
    heap,              \* the recording objects
    currentLevel,
    accumulator, isRunning, isPaused, levelComplete,
    sinceLastTime,     \* performance.now() - lastTime: the time elapsed since
                       \* the time reference of the frame loop
    trace,             \* history: per recording object, the player after
                       \* each tick recorded into it
    sampled            \* history: the snapshots sampled since the session
                       \* started

simVars == <<globalTick, localTick, loopIndex, player, ghosts, entities,
             currentRecording, recordings, heap, currentLevel, levelComplete>>
vars == <<keys, userKeys, deltas, sinceLastTime, globalTick, localTick, loopIndex, player, ghosts,
          entities, currentRecording, recordings, heap, currentLevel,
          accumulator, isRunning, isPaused, levelComplete, trace, sampled>>

\* The simulation state as the record the Game operators work on.
Game ==
    [globalTick |-> globalTick, localTick |-> localTick,
     loopIndex |-> loopIndex, player |-> player, ghosts |-> ghosts,
     entities |-> entities, currentRecording |-> currentRecording,
     recordings |-> recordings, heap |-> heap,
     currentLevel |-> currentLevel, levelComplete |-> levelComplete]

SetGame(g) ==
    /\ globalTick' = g.globalTick
    /\ localTick' = g.localTick
    /\ loopIndex' = g.loopIndex
    /\ player' = g.player
    /\ ghosts' = g.ghosts
    /\ entities' = g.entities
    /\ currentRecording' = g.currentRecording
    /\ recordings' = g.recordings
    /\ heap' = g.heap
    /\ currentLevel' = g.currentLevel
    /\ levelComplete' = g.levelComplete

\* InputSystem.getState()
getState == copySnapshot(keys)

\* A frame is being processed: frameLoop is inside its while loop.  Between
\* frames the accumulator is below one tick.
inFrame == accumulator >= TICK_DURATION

Init ==
    \E s \in Scenarios :
        /\ keys = NoKeys
        /\ userKeys = s.userKeys
        /\ deltas = s.deltas
        /\ LET g == initGame(s.level)
           IN /\ globalTick = g.globalTick
              /\ localTick = g.localTick
              /\ loopIndex = g.loopIndex
              /\ player = g.player
              /\ ghosts = g.ghosts
              /\ entities = g.entities
              /\ currentRecording = g.currentRecording
              /\ recordings = g.recordings
              /\ heap = g.heap
              /\ currentLevel = g.currentLevel
              /\ levelComplete = g.levelComplete
        /\ accumulator = 0
        /\ sinceLastTime = 0
        /\ isRunning = TRUE
        /\ isPaused = FALSE
        /\ trace = <<<<>>>>
        /\ sampled = <<>>

(***************************************************************************)
(* Handlers                                                                *)
(***************************************************************************)
\* InputSystem.handleKeyDown, for a key code mapped to action k.
KeyDown(k) ==
    /\ ~inFrame
    /\ keys' = [keys EXCEPT ![k] = TRUE]
    /\ UNCHANGED <<userKeys, deltas, sinceLastTime, simVars, accumulator, isRunning, isPaused,
                   trace, sampled>>

\* InputSystem.handleKeyUp
KeyUp(k) ==
    /\ ~inFrame
    /\ keys' = [keys EXCEPT ![k] = FALSE]
    /\ UNCHANGED <<userKeys, deltas, sinceLastTime, simVars, accumulator, isRunning, isPaused,
                   trace, sampled>>

\* The longest time between two frames in this run.
maxDelta == CHOOSE m \in deltas : \A d \in deltas : d <= m

\* Mutant: the frame accumulates at most two ticks of elapsed time.
FrameLoop_capped(d) ==
    LET deltaTime == sinceLastTime + d
        sum == accumulator + deltaTime
        cap == 2 * TICK_DURATION
    IN /\ ~inFrame
       /\ isRunning
       /\ loopIndex <= MaxLoops
       /\ deltaTime <= maxDelta
       /\ sinceLastTime' = 0
       /\ accumulator' = IF ~isPaused /\ ~levelComplete
                         THEN (IF sum > cap THEN cap ELSE sum)
                         ELSE accumulator
       /\ UNCHANGED <<keys, userKeys, deltas, simVars, isRunning, isPaused,
                      trace, sampled>>

\* Mutant: the frame accumulates elapsed time whether or not the game is
\* paused.
FrameLoop_ignoresPause(d) ==
    LET deltaTime == sinceLastTime + d
    IN /\ ~inFrame
       /\ isRunning
       /\ loopIndex <= MaxLoops
       /\ deltaTime <= maxDelta
       /\ sinceLastTime' = 0
       /\ accumulator' = IF ~levelComplete
                         THEN accumulator + deltaTime ELSE accumulator
       /\ UNCHANGED <<keys, userKeys, deltas, simVars, isRunning, isPaused,
                      trace, sampled>>

\* frameLoop up to its while loop, called when d more time has passed:
\* deltaTime = currentTime - lastTime, and lastTime becomes currentTime.
\* With less than a tick accumulated the loop body does not run and the call
\* ends here (rendering changes no state).
FrameLoop(d) ==
    LET deltaTime == sinceLastTime + d
    IN /\ ~inFrame
       /\ isRunning
       /\ loopIndex <= MaxLoops
       /\ deltaTime <= maxDelta
       /\ sinceLastTime' = 0
       /\ accumulator' = IF ~isPaused /\ ~levelComplete
                         THEN accumulator + deltaTime ELSE accumulator
       /\ UNCHANGED <<keys, userKeys, deltas, simVars, isRunning, isPaused,
                      trace, sampled>>

\* The trace after a tick: the player as updatePlayer left it, appended to
\* the history of the recording that was live; a fresh recording object
\* starts an empty history.
traceAfter(g, inputState, g2) ==
    LET moved == updatePlayer(g, inputState).player
        t1 == [trace EXCEPT ![g.currentRecording] = Append(@, moved)]
    IN IF Len(g2.heap) > Len(g.heap) THEN Append(t1, <<>>) ELSE t1

\* Mutant: the tick integrates the leftover frame time into the player's
\* position (a variable time step).
SimulationTick_timeScaled ==
    /\ inFrame
    /\ loopIndex <= MaxLoops
    /\ LET g == simulationTick(Game, getState)
           left == accumulator - TICK_DURATION
       IN /\ SetGame([g EXCEPT !.player.x = @ + left])
          /\ trace' = traceAfter(Game, getState, g)
    /\ sampled' = Append(sampled, getState)
    /\ accumulator' = accumulator - TICK_DURATION
    /\ UNCHANGED <<keys, userKeys, deltas, sinceLastTime, isRunning, isPaused>>

\* One iteration of frameLoop's while loop: simulationTick, then the
\* accumulator is reduced.
SimulationTick ==
    /\ inFrame
    /\ loopIndex <= MaxLoops
    /\ LET g == simulationTick(Game, getState)
       IN /\ SetGame(g)
          /\ trace' = traceAfter(Game, getState, g)
    /\ sampled' = Append(sampled, getState)
    /\ accumulator' = accumulator - TICK_DURATION
    /\ UNCHANGED <<keys, userKeys, deltas, sinceLastTime, isRunning, isPaused>>

\* Mutant: resuming keeps the time reference.
togglePause_keepLastTime(e) ==
    /\ ~inFrame
    /\ isPaused' = ~isPaused
    /\ sinceLastTime' = sinceLastTime + e
    /\ accumulator' = IF isPaused THEN 0 ELSE accumulator
    /\ UNCHANGED <<keys, userKeys, deltas, simVars, isRunning, trace, sampled>>

\* togglePause, called when e more time has passed: resuming sets lastTime to
\* performance.now() and empties the accumulator.
togglePause(e) ==
    /\ ~inFrame
    /\ isPaused' = ~isPaused
    /\ sinceLastTime' = IF isPaused THEN 0 ELSE sinceLastTime + e
    /\ accumulator' = IF isPaused THEN 0 ELSE accumulator
    /\ UNCHANGED <<keys, userKeys, deltas, simVars, isRunning, trace, sampled>>

RestartLevel ==
    /\ ~inFrame
    /\ SetGame(restartLevel(Game))
    /\ trace' = <<<<>>>>
    /\ sampled' = <<>>
    /\ UNCHANGED <<keys, userKeys, deltas, sinceLastTime, accumulator, isRunning, isPaused>>

Next ==
    \/ \E k \in userKeys : KeyDown(k)
    \/ \E k \in userKeys : KeyUp(k)
    \/ \E d \in deltas : FrameLoop(d)
    \/ SimulationTick
    \/ \E e \in PauseWaits : togglePause(e)
    \/ RestartLevel

Spec == Init /\ [][Next]_vars

\* The sessions of the goal level alone: frames of any length, pauses and
\* restarts, the same handlers.
InitReplay ==
    /\ Init
    /\ currentLevel.id = "goal"

SpecReplay == InitReplay /\ [][Next]_vars

\* The sessions of the goal level in which frames keep coming: a frame with
\* elapsed time is eventually delivered, and a frame that has a tick to run
\* runs it.
\* Within a frame the only step that lowers the accumulator by one tick
\* duration is SimulationTick, so fairness of RunsTick is fairness of
\* SimulationTick.
RunsTick ==
    /\ inFrame
    /\ loopIndex <= MaxLoops
    /\ accumulator' = accumulator - TICK_DURATION

SpecLive ==
    /\ InitReplay
    /\ [][Next]_vars
    /\ WF_vars(\E d \in deltas \ {0} : FrameLoop(d))
    /\ WF_accumulator(RunsTick)

\* A switch under the spawn point, its door two steps to the right, and a
\* goal whose left edge is where the closed door stops a body.
LevelGhostGoal ==
    [id |-> "ghostgoal", spawnPoint |-> SpawnOnFloor,
     entities |-> <<
        Floor,
        [type |-> "switch", x |-> px(12), y |-> px(548), linkedDoorIndex |-> 0],
        [type |-> "door", x |-> px(88), y |-> px(504), height |-> px(64),
                          linkedIndex |-> 0],
        [type |-> "goal", x |-> px(88), y |-> px(520),
                          width |-> px(48), height |-> px(48)] >>]

\* The sessions of two levels, one with a goal behind a door and one without
\* a goal: the same handlers.
InitWin ==
    \E level \in {LevelGhostGoal, LevelDoor} :
        /\ keys = NoKeys
        /\ userKeys = {"right"}
        /\ deltas = WholeTicks
        /\ LET g == initGame(level)
           IN /\ globalTick = g.globalTick
              /\ localTick = g.localTick
              /\ loopIndex = g.loopIndex
              /\ player = g.player
              /\ ghosts = g.ghosts
              /\ entities = g.entities
              /\ currentRecording = g.currentRecording
              /\ recordings = g.recordings
              /\ heap = g.heap
              /\ currentLevel = g.currentLevel
              /\ levelComplete = g.levelComplete
        /\ accumulator = 0
        /\ sinceLastTime = 0
        /\ isRunning = TRUE
        /\ isPaused = FALSE
        /\ trace = <<<<>>>>
        /\ sampled = <<>>

SpecWin == InitWin /\ [][Next]_vars

\* A switch and a laser under the spawn point, both left after one step to
\* the right, and a goal that the same step reaches.
LevelGhostStays ==
    [id |-> "ghoststays", spawnPoint |-> SpawnOnFloor,
     entities |-> <<
        Floor,
        [type |-> "switch", x |-> px(12), y |-> px(548), linkedDoorIndex |-> 0],
        [type |-> "door", x |-> px(400), y |-> px(504), height |-> px(64),
                          linkedIndex |-> 0],
        [type |-> "laser", x1 |-> px(51), y1 |-> px(500),
                           x2 |-> px(51), y2 |-> px(568)],
        [type |-> "goal", x |-> px(86), y |-> px(520),
                          width |-> px(48), height |-> px(48)] >>]

\* The sessions of that level: frames of whole ticks, up to one tick more
\* than elsewhere, the same handlers.
InitDeactivate ==
    /\ keys = NoKeys
    /\ userKeys = {"right"}
    /\ deltas = {n * TICK_DURATION : n \in 0..(MaxFrameTicks + 1)}
    /\ LET g == initGame(LevelGhostStays)
       IN /\ globalTick = g.globalTick
          /\ localTick = g.localTick
          /\ loopIndex = g.loopIndex
          /\ player = g.player
          /\ ghosts = g.ghosts
          /\ entities = g.entities
          /\ currentRecording = g.currentRecording
          /\ recordings = g.recordings
          /\ heap = g.heap
          /\ currentLevel = g.currentLevel
          /\ levelComplete = g.levelComplete
    /\ accumulator = 0
    /\ sinceLastTime = 0
    /\ isRunning = TRUE
    /\ isPaused = FALSE
    /\ trace = <<<<>>>>
    /\ sampled = <<>>

SpecDeactivate == InitDeactivate /\ [][Next]_vars

(***************************************************************************)
(* The replay of one ghost, tick by tick: a ghost built from a recording   *)
(* of at most MaxRecLen entries (snapshots and holes) is stepped through   *)
(* updateGhost on an empty floor, the case of the specification's ghost    *)
(* scenario.                                                               *)
(***************************************************************************)
MaxRecLen == 3

LevelFloor == [id |-> "floor", spawnPoint |-> SpawnOnFloor,
               entities |-> <<Floor>>]

GhostEntries ==
    { NoKeys, [NoKeys EXCEPT !.right = TRUE], [NoKeys EXCEPT !.up = TRUE],
      undefined }

GhostInputs == UNION {[1..n -> GhostEntries] : n \in 0..MaxRecLen}

InitGhost ==
    \E inputs \in GhostInputs :
        LET g0 == initGame(LevelFloor)
            rec == [createRecording(1) EXCEPT !.inputs = inputs,
                                              !.endTick = Len(inputs)]
            g == startNewLoop([g0 EXCEPT !.heap = <<rec>>,
                                         !.recordings = <<1>>,
                                         !.loopIndex = 2])
        IN /\ keys = NoKeys
           /\ userKeys = {}
           /\ deltas = {}
           /\ globalTick = g.globalTick
           /\ localTick = g.localTick
           /\ loopIndex = g.loopIndex
           /\ player = g.player
           /\ ghosts = g.ghosts
           /\ entities = g.entities
           /\ currentRecording = g.currentRecording
           /\ recordings = g.recordings
           /\ heap = g.heap
           /\ currentLevel = g.currentLevel
           /\ levelComplete = g.levelComplete
           /\ accumulator = 0
           /\ sinceLastTime = 0
           /\ isRunning = TRUE
           /\ isPaused = FALSE
           /\ trace = <<<<>>, <<>>>>
           /\ sampled = <<>>

\* Step 3 of a tick alone: every ghost is updated at the current local tick.
GhostTick ==
    /\ localTick <= MaxRecLen + 1
    /\ ghosts' = updateGhostsFrom(Game, 1).ghosts
    /\ localTick' = localTick + 1
    /\ UNCHANGED <<keys, userKeys, deltas, sinceLastTime, globalTick, loopIndex, player,
                   entities, currentRecording, recordings, heap, currentLevel,
                   accumulator, isRunning, isPaused, levelComplete, trace,
                   sampled>>

NextGhost == GhostTick

SpecGhost == InitGhost /\ [][NextGhost]_vars

(***************************************************************************)
(* The movement of one body, tick by tick: Game.updatePlayer alone, under  *)
(* any input, in levels of walls and closed doors.                         *)
(***************************************************************************)
\* The walls and the door of level-2 of Levels.data, its spawn point.
LevelWalls ==
    [id |-> "walls", spawnPoint |-> [x |-> px(50), y |-> px(500)],
     entities |-> <<
        Floor,
        [type |-> "wall", x |-> px(100), y |-> px(450),
                          width |-> px(150), height |-> px(20)],
        [type |-> "wall", x |-> px(500), y |-> px(400),
                          width |-> px(20), height |-> px(168)],
        [type |-> "door", x |-> px(500), y |-> px(504), height |-> px(64)] >>]

\* A low wall on the floor, 24 pixels from the left boundary.
LevelBoundary ==
    [id |-> "boundary", spawnPoint |-> [x |-> px(49), y |-> px(500)],
     entities |-> <<
        Floor,
        [type |-> "wall", x |-> px(24), y |-> px(558),
                          width |-> px(20), height |-> px(10)] >>]

\* A step of 5 pixels on the floor, the height a walking body climbs, and a
\* platform whose end is above the start of the step, 1 pixel higher than
\* a body standing on the floor.
LevelStep ==
    [id |-> "step", spawnPoint |-> [x |-> px(50), y |-> px(500)],
     entities |-> <<
        Floor,
        [type |-> "wall", x |-> px(106), y |-> px(515),
                          width |-> px(40), height |-> px(20)],
        [type |-> "wall", x |-> px(102), y |-> px(563),
                          width |-> px(40), height |-> px(5)] >>]

PhysicsLevels == {LevelWalls, LevelBoundary, LevelStep}

PhysicsInputs ==
    { [NoKeys EXCEPT !.left = l, !.right = r, !.up = u] :
        l \in BOOLEAN, r \in BOOLEAN, u \in BOOLEAN }

InitPhysics ==
    \E level \in PhysicsLevels :
        LET g == initGame(level)
        IN /\ keys = NoKeys
           /\ userKeys = {}
           /\ deltas = {}
           /\ globalTick = g.globalTick
           /\ localTick = g.localTick
           /\ loopIndex = g.loopIndex
           /\ player = g.player
           /\ ghosts = g.ghosts
           /\ entities = g.entities
           /\ currentRecording = g.currentRecording
           /\ recordings = g.recordings
           /\ heap = g.heap
           /\ currentLevel = g.currentLevel
           /\ levelComplete = g.levelComplete
           /\ accumulator = 0
           /\ sinceLastTime = 0
           /\ isRunning = TRUE
           /\ isPaused = FALSE
           /\ trace = <<<<>>>>
           /\ sampled = <<>>

\* Step 2 of a tick alone: the player is moved under input.
UpdatePlayer(input) ==
    /\ player' = updatePlayer(Game, input).player
    /\ UNCHANGED <<keys, userKeys, deltas, sinceLastTime, globalTick, localTick, loopIndex,
                   ghosts, entities, currentRecording, recordings, heap,
                   currentLevel, accumulator, isRunning, isPaused,
                   levelComplete, trace, sampled>>

NextPhysics == \E input \in PhysicsInputs : UpdatePlayer(input)

SpecPhysics == InitPhysics /\ [][NextPhysics]_vars

\* The same in the wall layout of level-2 alone.
InitJump == InitPhysics /\ currentLevel = LevelWalls
SpecJump == InitJump /\ [][NextPhysics]_vars

(***************************************************************************)
(* Level construction: levels built from a pool of descriptors, some of    *)
(* unknown kind, loaded by the level shortcut (Game.currentLevel = level;  *)
(* Game.restartLevel()).                                                   *)
(***************************************************************************)
MaxDefs == 3

DescriptorPool ==
    { Floor,
      [type |-> "switch", x |-> px(12), y |-> px(548), linkedDoorIndex |-> 0],
      [type |-> "door", x |-> px(400), y |-> px(504), height |-> px(64),
                        linkedIndex |-> 0],
      [type |-> "spike", x |-> px(200), y |-> px(548), linkedIndex |-> 0],
      [type |-> "portal", x |-> px(300), y |-> px(548), linkedDoorIndex |-> 0] }

BuiltLevels ==
    { [id |-> "built", spawnPoint |-> SpawnOnFloor, entities |-> es] :
         es \in UNION {[1..n -> DescriptorPool] : n \in 1..MaxDefs} }

LoadLevel(level) ==
    /\ ~inFrame
    /\ SetGame(restartLevel([Game EXCEPT !.currentLevel = level]))
    /\ trace' = <<<<>>>>
    /\ sampled' = <<>>
    /\ UNCHANGED <<keys, userKeys, deltas, sinceLastTime, accumulator, isRunning, isPaused>>

InitLevels ==
    \E level \in BuiltLevels :
        LET g == initGame(level)
        IN /\ keys = NoKeys
           /\ userKeys = {}
           /\ deltas = {}
           /\ globalTick = g.globalTick
           /\ localTick = g.localTick
           /\ loopIndex = g.loopIndex
           /\ player = g.player
           /\ ghosts = g.ghosts
           /\ entities = g.entities
           /\ currentRecording = g.currentRecording
           /\ recordings = g.recordings
           /\ heap = g.heap
           /\ currentLevel = g.currentLevel
           /\ levelComplete = g.levelComplete
           /\ accumulator = 0
           /\ sinceLastTime = 0
           /\ isRunning = TRUE
           /\ isPaused = FALSE
           /\ trace = <<<<>>>>
           /\ sampled = <<>>

NextLevels == \E level \in BuiltLevels : LoadLevel(level)

SpecLevels == InitLevels /\ [][NextLevels]_vars

(***************************************************************************)
(* Properties                                                              *)
(***************************************************************************)
Dense(inputs) == \A k \in DOMAIN inputs : inputs[k] # undefined

BodyState(b) == <<b.x, b.y, b.vx, b.vy, b.grounded>>

\* C1: once levelComplete is set, no simulation tick runs until restartLevel:
\* localTick, globalTick, the bodies, the live recording and the recordings
\* list stay as they are.
C1_NoTickAfterWin ==
    [][(levelComplete /\ levelComplete') =>
          UNCHANGED <<localTick, globalTick, player, ghosts, currentRecording,
                      recordings, heap>>]_vars

\* C2: at every tick boundary every recording in the recordings list has
\* inputs.length = endTick and a defined snapshot at every index.
C2_RecordingDensity ==
    \A i \in DOMAIN recordings :
        LET r == heap[recordings[i]]
        IN Len(r.inputs) = r.endTick /\ Dense(r.inputs)

\* C3: a recording in the recordings list is never modified by a later step
\* (short of restartLevel dropping the list).
C3_FinalizedImmutable ==
    [][\A i \in DOMAIN recordings :
          i \in DOMAIN recordings' =>
              /\ recordings'[i] = recordings[i]
              /\ heap'[recordings'[i]] = heap[recordings[i]]]_vars

\* C4: after each tick t < endTick the ghost bound to a recording has the
\* position, velocity and grounded flag the player had after tick t of the
\* attempt that made the recording.
C4_ReplayFidelity ==
    \A i \in DOMAIN ghosts :
        LET h == ghosts[i].recording
            t == localTick - 1
        IN (localTick >= 1 /\ t < heap[h].endTick) =>
              /\ Len(trace[h]) > t
              /\ BodyState(ghosts[i]) = BodyState(trace[h][t + 1])

\* The state after the ticks snaps[i], snaps[i+1], ... applied to g in order.
\* Each tick is evaluated before the next one is entered (the test on
\* globalTick is always true).
RECURSIVE ReplayFrom(_, _, _)
ReplayFrom(g, snaps, i) ==
    IF i > Len(snaps) THEN g
    ELSE LET g2 == simulationTick(g, snaps[i])
         IN IF g2.globalTick >= 0 THEN ReplayFrom(g2, snaps, i + 1) ELSE g2

\* C5: the simulation state is a function of the level and the sequence of
\* snapshots sampled at each tick alone, whatever the frame deltas and pauses
\* were: it equals the state obtained by applying simulationTick to the
\* sampled snapshots, one after the other, from the start of the level.
C5_Determinism == Game = ReplayFrom(initGame(currentLevel), sampled, 1)

\* C5 witness: a paused session with leftover time, more than one attempt's
\* worth of ticks simulated.
C5_Witness ==
    /\ Len(sampled) > LOOP_TICKS
    /\ isPaused
    /\ accumulator > 0

\* C6: for every listed recording and every tick, isGhostActive is true
\* exactly when tick < endTick, and getInputAtTick returns a snapshot exactly
\* then.
C6_ActiveIffBeforeEndTick ==
    \A i \in DOMAIN recordings : \A tick \in 0..(LOOP_TICKS + 1) :
        LET r == heap[recordings[i]]
        IN /\ isGhostActive(r, tick) <=> tick < r.endTick
           /\ (getInputAtTick(r, tick) # undefined) <=> tick < r.endTick

\* The body a ghost is after its first k recorded snapshots.
RECURSIVE bodyAfter(_, _, _)
bodyAfter(b, inputs, k) ==
    IF k = 0 THEN b
    ELSE resolveCollisions(
            applyPhysics(applyInput(bodyAfter(b, inputs, k - 1), inputs[k])),
            entities)

\* C7: a ghost whose recording holds n snapshots, at ticks 0..n-1, is active
\* with physics applied on each of the local ticks 0..n-1 and becomes
\* inactive while local tick n is processed, not before.
C7_GhostActiveThroughRecording ==
    \A i \in DOMAIN ghosts :
        LET inputs == heap[ghosts[i].recording].inputs
            n == Len(inputs)
            spawn == currentLevel.spawnPoint
            fresh == createGhost(spawn.x, spawn.y, ghosts[i].recording)
        IN Dense(inputs) =>
              /\ ghosts[i].isActive <=> localTick <= n
              /\ ghosts[i] = [bodyAfter(fresh, inputs, Min(localTick, n))
                                 EXCEPT !.isActive = (localTick <= n)]

\* C7 witness: a ghost that replayed a recording of at least two snapshots,
\* one of them a jump, and has just been deactivated.
C7_Witness ==
    \E i \in DOMAIN ghosts :
        LET inputs == heap[ghosts[i].recording].inputs
        IN /\ Dense(inputs)
           /\ Len(inputs) >= 2
           /\ \E k \in DOMAIN inputs : inputs[k].up
           /\ localTick = Len(inputs) + 1
           /\ ~ghosts[i].isActive

\* The doors a switch links to, and the descriptor a door was built from
\* (an entity's id is the position of its descriptor).
DoorsOf(k) ==
    {d \in DOMAIN entities :
        /\ entities[d].type = "door"
        /\ entities[d].id \in SeqRange(entities[k].linkedIds)}
\* The switches that list door d among their linkedIds.
LinkersOf(d) ==
    {k \in DOMAIN entities :
        entities[k].type = "switch" /\ d \in DoorsOf(k)}
DescriptorOf(e) == currentLevel.entities[e.id]
RequiresBoth(e) ==
    "requiresBoth" \in DOMAIN DescriptorOf(e) /\ DescriptorOf(e).requiresBoth

\* The player steps onto switch k on this tick: unpressed before, pressed
\* after, the player over it.
PlayerPresses(k) ==
    /\ entities[k].type = "switch"
    /\ k \in DOMAIN entities'
    /\ entities'[k].type = "switch"
    /\ ~entities[k].isPressed
    /\ entities'[k].isPressed
    /\ aabbOverlap(player', entities'[k])

\* C8 as stated: the door linked to a switch the player steps onto on tick T
\* is still closed in the state at the end of tick T.
C8_DoorClosedAtEndOfTick ==
    [][\A k \in DOMAIN entities :
          PlayerPresses(k) => \A d \in DoorsOf(k) : ~entities'[d].isOpen]_vars

\* C8 amended: the door (of the "any" kind) is open already in the state at
\* the end of tick T, while the movement of tick T was resolved against the
\* entities as the tick before left them.
C8_DoorOpenAtEndOfTick ==
    [][\A k \in DOMAIN entities :
          PlayerPresses(k) =>
              /\ \A d \in DoorsOf(k) :
                    ~RequiresBoth(entities[d]) => entities'[d].isOpen
              /\ player' = updatePlayer(Game, getState).player]_vars

\* C8 witness: the player, idle on tick 0, stepped onto the switch of the goal
\* level on tick 1 (one step from the spawn point, still moving), and the
\* door of the switch is open at the end of that tick.
C8_Witness ==
    /\ currentLevel.id = "goal"
    /\ localTick = 2
    /\ loopIndex = 1
    /\ player.x = currentLevel.spawnPoint.x + PLAYER_SPEED
    /\ player.vx = PLAYER_SPEED
    /\ entities[2].isPressed
    /\ aabbOverlap(player, entities[2])
    /\ entities[3].isOpen

\* C9: a door marked requiresBoth and linked from two or more switches is
\* open exactly when all of its linked switches are pressed.
C9_RequiresBothIsAnd ==
    \A d \in DOMAIN entities :
        LET linked == LinkersOf(d)
        IN (/\ entities[d].type = "door"
            /\ RequiresBoth(entities[d])
            /\ Cardinality(linked) >= 2) =>
              (entities[d].isOpen <=> \A k \in linked : entities[k].isPressed)

\* C10: a door no switch links to has isOpen = initiallyOpen after every
\* tick, whatever the switches and bodies do.
C10_UnlinkedDoorKeepsInitial ==
    \A d \in DOMAIN entities :
        (/\ entities[d].type = "door"
         /\ LinkersOf(d) = {}) =>
            entities[d].isOpen = entities[d].initiallyOpen

\* C10 witness: a door without a linked switch, while a switch of the level
\* is pressed and the linked door beside it is open.
C10_Witness ==
    /\ localTick >= 1
    /\ \E d \in DOMAIN entities :
          /\ entities[d].type = "door"
          /\ LinkersOf(d) = {}
    /\ \E k \in DOMAIN entities :
          /\ entities[k].type = "switch"
          /\ entities[k].isPressed
          /\ \E d \in DoorsOf(k) : entities[d].isOpen

\* The solid entities a body overlaps.
SolidsOverlapping(b) ==
    {k \in DOMAIN entities :
        isSolid(entities[k]) /\ aabbOverlap(b, entities[k])}

\* C11: after resolveCollisions the body overlaps no wall and no closed door.
C11_CollisionContainment == SolidsOverlapping(player) = {}

\* C12: resolveCollisions applied again to the body it produced, against the
\* same entities, changes nothing.
C12_ResolveIdempotent ==
    BodyState(resolveCollisions(player, entities)) = BodyState(player)

IsTick == sampled' = Append(sampled, getState)

\* The tick ended the attempt with reachedGoal = true: endLoop(true) appended
\* the live recording without starting an attempt, or both endLoop(true) and
\* the loop boundary appended it.
EndedWithGoal ==
    \/ Len(recordings') = Len(recordings) + 2
    \/ Len(recordings') = Len(recordings) + 1 /\ loopIndex' = loopIndex

\* The goals body b overlaps with a non-empty interior intersection.
GoalsUnder(b) ==
    {k \in DOMAIN entities :
        /\ entities[k].type = "goal"
        /\ b.x < entities[k].x + entities[k].width
        /\ entities[k].x < b.x + b.width
        /\ b.y < entities[k].y + entities[k].height
        /\ entities[k].y < b.y + b.height}

\* C14: a tick ends the attempt with reachedGoal = true exactly when the
\* player, after the movement of that tick, strictly overlaps a goal; touching
\* the goal or a ghost over the goal does not end it.
C14_WinIffPlayerOverlapsGoal ==
    [][IsTick =>
          (EndedWithGoal <=>
              GoalsUnder(updatePlayer(Game, getState).player) # {})]_vars

\* C14 witness: in the second attempt a ghost is over the goal, the player is
\* not and the level is not complete; the player of the recorded attempt was
\* stopped touching the goal edge to edge.
C14_Witness ==
    /\ ~levelComplete
    /\ localTick >= 1
    /\ GoalsUnder(player) = {}
    /\ \E i \in DOMAIN ghosts :
          /\ ghosts[i].isActive
          /\ GoalsUnder(ghosts[i]) # {}
          /\ \E t \in DOMAIN trace[ghosts[i].recording] :
                \E k \in DOMAIN entities :
                   LET b == trace[ghosts[i].recording][t]
                   IN /\ entities[k].type = "goal"
                      /\ b.x + b.width = entities[k].x
                      /\ b.y < entities[k].y + entities[k].height
                      /\ entities[k].y < b.y + b.height

\* C15: an attempt runs at most LOOP_TICKS ticks: localTick stays below
\* LOOP_TICKS, a tick starts the next attempt exactly when it is tick
\* LOOP_TICKS - 1, every listed recording with reachedGoal = false has
\* endTick = LOOP_TICKS, and a session that is not paused for ever comes back
\* again and again to tick 0 of an attempt (the attempt before it has ended)
\* unless the level is complete or the last modelled attempt is over.
C15_AttemptBounded ==
    /\ [](localTick < LOOP_TICKS)
    /\ [][IsTick =>
             /\ (loopIndex' = loopIndex + 1) <=> (localTick = LOOP_TICKS - 1)
             /\ loopIndex' \in {loopIndex, loopIndex + 1}]_vars
    /\ [](\A i \in DOMAIN recordings :
             ~heap[recordings[i]].reachedGoal =>
                 heap[recordings[i]].endTick = LOOP_TICKS)
    /\ []<>(\/ localTick = 0
             \/ isPaused
             \/ levelComplete
             \/ loopIndex > MaxLoops)

\* C15 witness: the second attempt is running after the first ran out of
\* time; its recording is listed with reachedGoal = false.
C15_Witness ==
    /\ loopIndex = 2
    /\ ~levelComplete
    /\ localTick > 0
    /\ Len(recordings) = 1
    /\ ~heap[recordings[1]].reachedGoal
    /\ heap[recordings[1]].endTick = LOOP_TICKS

\* C16: at tick 0 of every attempt after the first, loopIndex is one more
\* than the loop index of the last listed recording, the live recording is
\* fresh (empty inputs, reachedGoal = false, endTick = 0), the player stands
\* at the spawn point with zero velocity, every switch is unpressed, every
\* laser unblocked and every door at its initial state, and there is one
\* active ghost at the spawn point per listed recording, in list order.
C16_NextAttemptState ==
    (localTick = 0 /\ loopIndex > 1) =>
        LET spawn == currentLevel.spawnPoint
            live == heap[currentRecording]
        IN /\ loopIndex = heap[recordings[Len(recordings)]].loopIndex + 1
           /\ \A i \in DOMAIN recordings : currentRecording # recordings[i]
           /\ live.inputs = <<>>
           /\ ~live.reachedGoal
           /\ live.endTick = 0
           /\ live.loopIndex = loopIndex
           /\ player.x = spawn.x /\ player.y = spawn.y
           /\ player.vx = 0 /\ player.vy = 0
           /\ player.isActive
           /\ Len(entities) = Len(currentLevel.entities)
           /\ \A i \in DOMAIN entities :
                 LET e == entities[i]
                     desc == currentLevel.entities[i]
                 IN /\ e.type = desc.type
                    /\ e.type = "switch" => ~e.isPressed
                    /\ e.type = "laser" => ~e.isBlocked
                    /\ e.type = "door" => e.isOpen = e.initiallyOpen
                    /\ e.type \in {"wall", "switch", "door", "goal"} =>
                          e.x = desc.x /\ e.y = desc.y
           /\ DOMAIN ghosts = DOMAIN recordings
           /\ \A i \in DOMAIN ghosts :
                 /\ ghosts[i].recording = recordings[i]
                 /\ ghosts[i].isActive
                 /\ ghosts[i].x = spawn.x /\ ghosts[i].y = spawn.y
                 /\ ghosts[i].vx = 0 /\ ghosts[i].vy = 0

\* C16 witness: the second attempt of the door level is about to start; the
\* first attempt ended with the player standing on the switch.
C16_Witness ==
    /\ currentLevel.id = "door"
    /\ loopIndex = 2
    /\ localTick = 0
    /\ Len(recordings) = 1
    /\ ~heap[recordings[1]].reachedGoal
    /\ Len(trace[recordings[1]]) = LOOP_TICKS
    /\ trace[recordings[1]][LOOP_TICKS].x = currentLevel.spawnPoint.x
    /\ ~entities[2].isPressed

\* C17: while the game is paused no tick is due, and a frameLoop call leaves
\* the tick counters, the recordings, the bodies, the world entities and the
\* accumulator as they were and leaves no tick due.
C17_PausedFramesRunNoTicks ==
    /\ [](isPaused => ~inFrame)
    /\ [][(isPaused /\ \E d \in deltas : FrameLoop(d)) =>
             /\ UNCHANGED <<simVars, accumulator, isPaused, sampled>>
             /\ ~inFrame']_vars

\* C17 witness: the game is paused in the middle of an attempt with part of
\* a tick accumulated, and a frame has taken the time reference forward.
C17_Witness ==
    /\ isPaused
    /\ sinceLastTime = 0
    /\ accumulator > 0
    /\ localTick > 0
    /\ ~levelComplete

\* C18: no step of the session lowers globalTick, and every simulation tick
\* raises it by exactly one.
C18_GlobalTickMonotonic ==
    [][/\ globalTick' >= globalTick
       /\ IsTick => globalTick' = globalTick + 1]_vars

\* C19: a frameLoop call made while neither paused nor level-complete adds
\* the whole elapsed time to the accumulator; from then on the only steps are
\* simulation ticks, one for each whole TICK_DURATION in the accumulator, each
\* taking exactly one TICK_DURATION out of it and leaving the remainder; the
\* ticks go on until less than one TICK_DURATION is left.  So the call runs
\* floor((accumulator + d) / TICK_DURATION) ticks and ends with
\* 0 <= accumulator < TICK_DURATION.
C19_TicksPerFrame ==
    /\ [](accumulator >= 0)
    /\ [][\A d \in deltas :
             (FrameLoop(d) /\ ~isPaused /\ ~levelComplete) =>
                 accumulator' = accumulator + sinceLastTime + d]_vars
    /\ [][(inFrame \/ IsTick) =>
             /\ inFrame
             /\ IsTick
             /\ accumulator' \div TICK_DURATION =
                    (accumulator \div TICK_DURATION) - 1
             /\ accumulator' % TICK_DURATION = accumulator % TICK_DURATION]_vars
    /\ (inFrame /\ loopIndex <= MaxLoops) ~> (~inFrame \/ loopIndex > MaxLoops)

\* C19 witness: one frame has three ticks or more to run.
C19_Witness ==
    /\ accumulator >= 3 * TICK_DURATION
    /\ accumulator % TICK_DURATION # 0
    /\ ~isPaused
    /\ ~levelComplete

\* C20: resuming from pause empties the accumulator and takes the time
\* reference to the moment of the resume, and changes nothing else of the
\* simulation; the frameLoop call that follows accumulates exactly the time
\* elapsed since the resume.
C20_ResumeRestartsTime ==
    /\ [][(isPaused /\ ~isPaused') =>
             /\ accumulator' = 0
             /\ sinceLastTime' = 0
             /\ UNCHANGED <<simVars, keys, sampled>>]_vars
    /\ [][\A d \in deltas :
             (/\ FrameLoop(d)
              /\ ~isPaused /\ ~levelComplete
              /\ accumulator = 0 /\ sinceLastTime = 0) =>
                 /\ accumulator' = d
                 /\ inFrame' <=> d >= TICK_DURATION]_vars

\* C20 witness: the game is paused in the middle of an attempt with part of
\* a tick left in the accumulator and more than a tick of time gone by since
\* the last frame.
C20_Witness ==
    /\ isPaused
    /\ accumulator > 0
    /\ sinceLastTime > TICK_DURATION
    /\ localTick > 0

\* C21: while the level is not complete the live recording holds exactly one
\* defined snapshot per tick run in the attempt (inputs.length = localTick),
\* and a tick that does not win stores the snapshot it sampled at index
\* inputs.length: if the attempt goes on, inputs has grown by that one
\* snapshot, and if the attempt ran out of time, the recording is listed with
\* all the old snapshots and the new one.
C21_RecordingGrowsByOne ==
    /\ [](~levelComplete =>
            /\ Len(heap[currentRecording].inputs) = localTick
            /\ Dense(heap[currentRecording].inputs))
    /\ [][(IsTick /\ ~levelComplete /\ ~levelComplete') =>
             /\ Len(sampled') = Len(sampled) + 1
             /\ heap'[currentRecording].inputs =
                    Append(heap[currentRecording].inputs, getState)
             /\ currentRecording' # currentRecording =>
                    recordings'[Len(recordings')] = currentRecording]_vars

\* C21 witness: two ticks into the second attempt, the live recording holds
\* two different snapshots.
C21_Witness ==
    /\ ~levelComplete
    /\ loopIndex = 2
    /\ localTick = 2
    /\ Len(heap[currentRecording].inputs) = 2
    /\ heap[currentRecording].inputs[1] # heap[currentRecording].inputs[2]

\* The player and the ghosts that are active.
ActiveBodies == {b \in {player} \cup SeqRange(ghosts) : b.isActive}

\* The step stays within one attempt.
SameAttempt ==
    /\ loopIndex' = loopIndex
    /\ currentRecording' = currentRecording
    /\ DOMAIN ghosts' = DOMAIN ghosts

\* C22: within an attempt a ghost that is inactive stays inactive and keeps
\* its position, velocity and grounded flag, and it presses no switch and
\* blocks no laser: a pressed switch is overlapped by an active body and a
\* blocked laser is crossed by an active body.
C22_DeactivationPermanent ==
    /\ [][SameAttempt =>
             \A i \in DOMAIN ghosts :
                 ~ghosts[i].isActive => ghosts'[i] = ghosts[i]]_vars
    /\ [](\A k \in DOMAIN entities :
            LET e == entities[k]
            IN /\ (e.type = "switch" /\ e.isPressed) =>
                     \E b \in ActiveBodies : aabbOverlap(b, e)
               /\ (e.type = "laser" /\ e.isBlocked) =>
                     \E b \in ActiveBodies :
                         lineIntersectsRect(e.x1, e.y1, e.x2, e.y2, b))

\* C22 witness: an inactive ghost stands on a switch and across a laser; the
\* player is elsewhere, the switch is not pressed and the laser not blocked.
C22_Witness ==
    \E i \in DOMAIN ghosts :
    \E k, l \in DOMAIN entities :
        /\ ~ghosts[i].isActive
        /\ localTick > 0
        /\ entities[k].type = "switch"
        /\ aabbOverlap(ghosts[i], entities[k])
        /\ ~aabbOverlap(player, entities[k])
        /\ ~entities[k].isPressed
        /\ entities[l].type = "laser"
        /\ lineIntersectsRect(entities[l].x1, entities[l].y1,
                               entities[l].x2, entities[l].y2, ghosts[i])
        /\ ~entities[l].isBlocked

\* In the state a step leads to, every switch is pressed exactly if an
\* active body overlaps it.
SwitchesFollowBodies ==
    \A k \in DOMAIN entities' :
        entities'[k].type = "switch" =>
            (entities'[k].isPressed <=>
                \E b \in ActiveBodies' : aabbOverlap(b, entities'[k]))

\* C23 as stated: after every tick each switch is pressed exactly if an
\* active body overlaps it at its position after the tick.
C23_SwitchPressedIffOverlapped == [][IsTick => SwitchesFollowBodies]_vars

\* C23 amended: the same after every tick that does not start a new attempt
\* (the tick that ends an attempt leaves the freshly built, unpressed
\* switches of the next attempt, whatever stands on them).
C23_SwitchPressedIffOverlappedInAttempt ==
    [][(IsTick /\ SameAttempt) => SwitchesFollowBodies]_vars

\* C23 witness: in the second attempt the player has stepped off the switch
\* it stood on after the first tick, and the ghost, replaying the first
\* attempt, presses it.
C23_Witness ==
    /\ loopIndex = 2
    /\ localTick = 2
    /\ entities[2].type = "switch"
    /\ entities[2].isPressed
    /\ ~aabbOverlap(player, entities[2])
    /\ aabbOverlap(trace[currentRecording][1], entities[2])
    /\ ghosts[1].isActive
    /\ aabbOverlap(ghosts[1], entities[2])

\* The level with its laser descriptors taken out.
WithoutLasers(level) ==
    [level EXCEPT !.entities = SelectSeq(@, LAMBDA def : def.type # "laser")]

\* What the world entities other than lasers look like, in order, leaving
\* out the ids (which follow the position in the level).
PuzzleView(ents) ==
    LET rest == SelectSeq(ents, LAMBDA e : e.type # "laser")
    IN [k \in DOMAIN rest |->
          LET e == rest[k]
          IN IF e.type = "switch" THEN <<e.type, e.x, e.y, e.isPressed>>
             ELSE IF e.type = "door" THEN <<e.type, e.x, e.y, e.isOpen>>
             ELSE <<e.type, e.x, e.y>>]

\* C24: the session is, in its bodies, counters, recordings, switches, doors
\* and level completion, where the same snapshots lead in the level without
\* its lasers.
C24_LasersInert ==
    LET h == ReplayFrom(initGame(WithoutLasers(currentLevel)), sampled, 1)
    IN /\ h.player = player
       /\ h.ghosts = ghosts
       /\ h.localTick = localTick
       /\ h.globalTick = globalTick
       /\ h.loopIndex = loopIndex
       /\ h.levelComplete = levelComplete
       /\ h.currentRecording = currentRecording
       /\ h.recordings = recordings
       /\ h.heap = heap
       /\ PuzzleView(h.entities) = PuzzleView(entities)

\* C24 witness: in the second attempt a laser is blocked and the level has a
\* switch, a door and a goal.
C24_Witness ==
    /\ loopIndex = 2
    /\ localTick > 0
    /\ \E l \in DOMAIN entities :
          entities[l].type = "laser" /\ entities[l].isBlocked
    /\ \E l \in DOMAIN entities : entities[l].type = "goal"
    /\ \E l \in DOMAIN entities : entities[l].type = "switch"
    /\ Len(PuzzleView(entities)) < Len(entities)

\* The body stands on the world bottom or on top of a solid entity.
Supported(b) ==
    \/ b.y + b.height = CANVAS_HEIGHT
    \/ \E k \in DOMAIN entities :
          /\ isSolid(entities[k])
          /\ b.y + b.height = entities[k].y
          /\ b.x < entities[k].x + entities[k].width
          /\ b.x + b.width > entities[k].x

\* The tick that takes body b to body b2 turned the velocity upward, beyond
\* what gravity and collisions do to it.
Jumped(b, b2) == b2.vy < 0 /\ b2.vy < b.vy + GRAVITY

\* C25: whatever the input, the tick turns the player's velocity upward only
\* if the input has up set and the player is grounded, and the player is
\* then in the air with the jump impulse plus one tick of gravity; a
\* grounded player stands on the world bottom or on top of a solid; a new
\* player is not grounded.
C25_JumpOnlyWhenGrounded ==
    /\ \A input \in PhysicsInputs :
          LET moved == updatePlayer(Game, input).player
          IN Jumped(player, moved) =>
                /\ input.up
                /\ player.grounded
                /\ moved.vy = PLAYER_JUMP + GRAVITY
                /\ ~moved.grounded
    /\ player.grounded => Supported(player)
    /\ ~createPlayer(player.x, player.y).grounded

\* C25 witness: the player has just jumped off the floor.
C25_Witness ==
    /\ player.vy = PLAYER_JUMP + GRAVITY
    /\ ~player.grounded
    /\ player.y + player.height = px(568) + player.vy

\* A player at rest in the wall layout of level-2: on top of the floor or of
\* the platform at any whole number of steps from the spawn point, inside no
\* solid, with zero velocity; each tick runs with the idle input.
InitRest ==
    \E level \in {LevelWalls} :
    \E n \in -10..150 :
    \E k \in DOMAIN createEntities(level) :
        LET g == initGame(level)
            wall == g.entities[k]
            body == [createPlayer(level.spawnPoint.x + n * PLAYER_SPEED,
                                  wall.y - PLAYER_HEIGHT)
                        EXCEPT !.grounded = TRUE]
        IN /\ wall.type = "wall"
           /\ body.x >= 0 /\ body.x + body.width <= CANVAS_WIDTH
           /\ body.x < wall.x + wall.width /\ body.x + body.width > wall.x
           /\ \A j \in DOMAIN g.entities :
                 isSolid(g.entities[j]) => ~aabbOverlap(body, g.entities[j])
           /\ keys = NoKeys
           /\ userKeys = {}
           /\ deltas = {}
           /\ globalTick = g.globalTick
           /\ localTick = g.localTick
           /\ loopIndex = g.loopIndex
           /\ player = body
           /\ ghosts = g.ghosts
           /\ entities = g.entities
           /\ currentRecording = g.currentRecording
           /\ recordings = g.recordings
           /\ heap = g.heap
           /\ currentLevel = g.currentLevel
           /\ levelComplete = g.levelComplete
           /\ accumulator = 0
           /\ sinceLastTime = 0
           /\ isRunning = TRUE
           /\ isPaused = FALSE
           /\ trace = <<<<>>>>
           /\ sampled = <<>>

NextRest == UpdatePlayer(NoKeys)

SpecRest == InitRest /\ [][NextRest]_vars

\* The walls the body stands exactly on top of.
WallsUnder(b) ==
    {k \in DOMAIN entities :
        /\ entities[k].type = "wall"
        /\ b.y + b.height = entities[k].y
        /\ b.x < entities[k].x + entities[k].width
        /\ b.x + b.width > entities[k].x}

\* C26: a player that stands exactly on top of a wall with zero velocity is,
\* after a tick with the idle input, at the same x and y with vy = 0 and
\* grounded = true.
C26_RestingFixedPoint ==
    (WallsUnder(player) # {} /\ player.vx = 0 /\ player.vy = 0) =>
        LET rested == updatePlayer(Game, NoKeys).player
        IN /\ rested.x = player.x
           /\ rested.y = player.y
           /\ rested.vx = 0
           /\ rested.vy = 0
           /\ rested.grounded

\* C26 witness: the player rests on the platform with only its last two
\* pixels over the platform's left end.
C26_Witness ==
    /\ player.vx = 0 /\ player.vy = 0
    /\ \E k \in WallsUnder(player) :
          /\ entities[k].y < px(568)
          /\ player.x + player.width - entities[k].x \in 1..px(2)


\* The level without its descriptors of unknown kind.
KnownDefs(level) == SelectSeq(level.entities, LAMBDA def : def.type \in KnownTypes)
WithoutUnknown(level) == [level EXCEPT !.entities = KnownDefs(level)]

\* The position in ents of the entity with the given id, 0 when none.
PositionOfId(ents, id) ==
    LET js == {j \in DOMAIN ents : "id" \in DOMAIN ents[j] /\ ents[j].id = id}
    IN IF js = {} THEN 0 ELSE CHOOSE j \in js : TRUE

\* The entities with every id (generated afresh at each construction)
\* replaced by the position of the entity that carries it.
LinkShape(ents) ==
    [j \in DOMAIN ents |->
        LET e == ents[j]
            e1 == IF "id" \in DOMAIN e THEN [e EXCEPT !.id = j] ELSE e
        IN IF "linkedIds" \in DOMAIN e
           THEN [e1 EXCEPT !.linkedIds =
                    [i \in DOMAIN e.linkedIds |-> PositionOfId(ents, e.linkedIds[i])]]
           ELSE e1]

\* C27: createEntities skips the descriptors of unknown kind without
\* aborting: the entities of a freshly loaded level are exactly those of
\* its known-kind descriptors, in descriptor order, and every switch is
\* linked to the door it would be linked to if the unknown descriptors were
\* absent from the level.
C27_UnknownKindsSkipped ==
    LET known == KnownDefs(currentLevel)
    IN /\ Len(entities) = Len(known)
       /\ \A j \in DOMAIN entities :
             /\ entities[j].type = known[j].type
             /\ entities[j].x = known[j].x
             /\ entities[j].y = known[j].y
       /\ LinkShape(entities) = LinkShape(createEntities(WithoutUnknown(currentLevel)))

\* A level with a descriptor of unknown kind between a switch and the door
\* it is linked to.
C27_Witness ==
    /\ Len(currentLevel.entities) = 3
    /\ currentLevel.entities[1].type = "switch"
    /\ currentLevel.entities[2].type \notin KnownTypes
    /\ currentLevel.entities[3].type = "door"
    /\ Len(entities) = 2
    /\ entities[1].linkedIds = <<entities[2].id>>

\* C28: the recordings list never contains the same recording twice: its
\* entries are pairwise distinct objects with pairwise distinct ids, and
\* their loopIndex values are strictly increasing in list order.
C28_RecordingsDistinct ==
    \A i, j \in DOMAIN recordings :
        i < j =>
            /\ recordings[i] # recordings[j]
            /\ heap[recordings[i]].id # heap[recordings[j]].id
            /\ heap[recordings[i]].loopIndex < heap[recordings[j]].loopIndex

\* C29: an attempt ends exactly once, with one result: a step appends at
\* most one recording to the list; while the level is complete the last
\* recording of the list has reachedGoal = true, loopIndex is not
\* incremented and no new attempt is started.
C29_AttemptEndsOnce ==
    /\ [][/\ Len(recordings') <= Len(recordings) + 1
          /\ (levelComplete /\ levelComplete') =>
                 /\ loopIndex' = loopIndex
                 /\ currentRecording' = currentRecording]_vars
    /\ [](levelComplete =>
            /\ recordings # <<>>
            /\ heap[recordings[Len(recordings)]].reachedGoal)

\* C30: while the level is not complete, there is one ghost per listed
\* recording and one listed recording per finished attempt
\* (ghosts.length = recordings.length = loopIndex - 1), the ghost at
\* position i is bound to recordings[i], and no two ghosts share a
\* recording.
C30_GhostsMatchRecordings ==
    ~levelComplete =>
        /\ Len(ghosts) = Len(recordings)
        /\ Len(recordings) = loopIndex - 1
        /\ \A i \in DOMAIN ghosts : ghosts[i].recording = recordings[i]
        /\ \A i, j \in DOMAIN ghosts :
              i # j => ghosts[i].recording # ghosts[j].recording

\* Two attempts have ended by timeout and the third stands at its start
\* with two ghosts.
C30_Witness ==
    /\ ~levelComplete
    /\ loopIndex = 3
    /\ Len(ghosts) = 2
    /\ Len(recordings) = 2

\* The sessions of the level with a switch and its door alone, one tick per
\* frame: no attempt is won, every attempt adds a ghost.
InitOrder ==
    /\ keys = NoKeys
    /\ userKeys = {"right"}
    /\ deltas = {TICK_DURATION}
    /\ LET g == initGame(LevelDoor)
       IN /\ globalTick = g.globalTick
          /\ localTick = g.localTick
          /\ loopIndex = g.loopIndex
          /\ player = g.player
          /\ ghosts = g.ghosts
          /\ entities = g.entities
          /\ currentRecording = g.currentRecording
          /\ recordings = g.recordings
          /\ heap = g.heap
          /\ currentLevel = g.currentLevel
          /\ levelComplete = g.levelComplete
    /\ accumulator = 0
    /\ sinceLastTime = 0
    /\ isRunning = TRUE
    /\ isPaused = FALSE
    /\ trace = <<<<>>>>
    /\ sampled = <<>>

\* Keys, frames and ticks; the session is neither paused nor restarted.
NextOrder ==
    \/ \E k \in userKeys : KeyDown(k)
    \/ \E k \in userKeys : KeyUp(k)
    \/ \E d \in deltas : FrameLoop(d)
    \/ SimulationTick

SpecOrder == InitOrder /\ [][NextOrder]_vars

\* Step 2 or 3 of a tick for one body: 0 is the player, i >= 1 the ghost at
\* position i.
updateBody(g, b, inputState) ==
    IF b = 0 THEN updatePlayer(g, inputState) ELSE updateGhost(g, b)

RECURSIVE updateBodiesIn(_, _, _, _)
updateBodiesIn(g, order, k, inputState) ==
    IF k > Len(order) THEN g
    ELSE updateBodiesIn(updateBody(g, order[k], inputState), order, k + 1,
                        inputState)

\* simulationTick with steps 2-3 performed in the given order of the bodies.
simulationTickIn(g, inputState, order) ==
    LET g1 == [g EXCEPT !.heap[g.currentRecording] =
                  recordTick(@, g.localTick, inputState)]
        g3 == updateBodiesIn(g1, order, 1, inputState)
        g4 == updateWorldEntities(g3)
        g5 == checkWinCondition(g4)
        g6 == [g5 EXCEPT !.localTick = @ + 1, !.globalTick = @ + 1]
    IN IF g6.localTick >= LOOP_TICKS THEN endLoop(g6, FALSE) ELSE g6

\* The permutations of the bodies of g.
BodyOrders(g) ==
    LET n == Len(g.ghosts)
    IN {[k \in 1..(n + 1) |-> p[k] - 1] : p \in Permutations(1..(n + 1))}

\* C31: within one tick the body updates are independent of each other:
\* performing steps 2-3 of the tick in any permutation of the bodies yields
\* the same post-tick state (bodies, switches, doors, lasers, win result) as
\* the order of simulationTick, player first, then the ghosts oldest first.
C31_BodyOrderIrrelevant ==
    LET inOrder == simulationTick(Game, getState)
    IN \A order \in BodyOrders(Game) :
          simulationTickIn(Game, getState, order) = inOrder

\* In a later attempt the player and an active ghost that has left the
\* spawn point both move on the tick about to run.
C31_Witness ==
    /\ inFrame
    /\ Len(ghosts) >= 1
    /\ localTick >= 1
    /\ keys.right
    /\ ghosts[1].isActive
    /\ ghosts[1].x # currentLevel.spawnPoint.x
    /\ getInputAtTick(heap[ghosts[1].recording], localTick) # undefined
    /\ simulationTick(Game, getState).player.x # player.x

(***************************************************************************)
(* The scheduler of src/js/game.js: Game.update records inline, reads the   *)
(* ghost's input from the array and ends an attempt without slicing.       *)
(***************************************************************************)
GameJs_updateGhost(g, i) ==
    LET ghost == g.ghosts[i]
        inputs == g.heap[ghost.recording].inputs
        input == IF g.localTick + 1 \in DOMAIN inputs
                 THEN inputs[g.localTick + 1] ELSE undefined
    IN IF ~ghost.isActive THEN g
       ELSE IF input = undefined
       THEN [g EXCEPT !.ghosts[i].isActive = FALSE]
       ELSE [g EXCEPT !.ghosts[i] =
               resolveCollisions(applyPhysics(applyInput(ghost, input)),
                                 g.entities)]

RECURSIVE GameJs_updateGhostsFrom(_, _)
GameJs_updateGhostsFrom(g, i) ==
    IF i > Len(g.ghosts) THEN g
    ELSE GameJs_updateGhostsFrom(GameJs_updateGhost(g, i), i + 1)

GameJs_startNewLoop(g) ==
    LET spawn == g.currentLevel.spawnPoint
    IN [g EXCEPT
          !.localTick = 0,
          !.heap = Append(@, [id |-> g.loopIndex, loopIndex |-> g.loopIndex,
                              startTick |-> g.globalTick, inputs |-> <<>>,
                              reachedGoal |-> FALSE, endTick |-> 0]),
          !.currentRecording = Len(g.heap) + 1,
          !.player = createPlayer(spawn.x, spawn.y),
          !.ghosts = [i \in DOMAIN g.recordings |->
                         createGhost(spawn.x, spawn.y, g.recordings[i])],
          !.entities = createEntities(g.currentLevel)]

GameJs_endLoop(g, reachedGoal) ==
    LET g1 == [g EXCEPT
                 !.heap[g.currentRecording].endTick = g.localTick,
                 !.heap[g.currentRecording].reachedGoal = reachedGoal,
                 !.recordings = Append(@, g.currentRecording)]
    IN IF reachedGoal
       THEN [g1 EXCEPT !.levelComplete = TRUE]
       ELSE GameJs_startNewLoop([g1 EXCEPT !.loopIndex = @ + 1])

GameJs_update(g, inputState) ==
    LET g1 == [g EXCEPT !.heap[g.currentRecording].inputs =
                  arraySet(@, g.localTick, copySnapshot(inputState))]
        g2 == updatePlayer(g1, inputState)
        g3 == GameJs_updateGhostsFrom(g2, 1)
        g4 == updateWorldEntities(g3)
        g5 == IF winCondition(g4) THEN GameJs_endLoop(g4, TRUE) ELSE g4
        g6 == [g5 EXCEPT !.localTick = @ + 1, !.globalTick = @ + 1]
    IN IF g6.localTick >= LOOP_TICKS THEN GameJs_endLoop(g6, FALSE) ELSE g6

GameJs_init(level) ==
    GameJs_startNewLoop(
        [globalTick |-> 0, localTick |-> 0, loopIndex |-> 1,
         player |-> undefined, ghosts |-> <<>>, entities |-> <<>>,
         currentRecording |-> 0, recordings |-> <<>>, heap |-> <<>>,
         currentLevel |-> level, levelComplete |-> FALSE])

\* Game.update applied to the snapshots, one tick after the other.
RECURSIVE GameJs_ReplayFrom(_, _, _)
GameJs_ReplayFrom(g, snaps, i) ==
    IF i > Len(snaps) THEN g
    ELSE LET g2 == GameJs_update(g, snaps[i])
         IN IF g2.globalTick >= 0 THEN GameJs_ReplayFrom(g2, snaps, i + 1)
            ELSE g2

\* What the claim observes of a session.
Observed(g) ==
    [localTick |-> g.localTick, globalTick |-> g.globalTick,
     loopIndex |-> g.loopIndex, levelComplete |-> g.levelComplete,
     player |-> g.player,
     ghosts |-> [i \in DOMAIN g.ghosts |->
                    <<BodyState(g.ghosts[i]), g.ghosts[i].isActive>>],
     entities |-> g.entities,
     recordings |-> [i \in DOMAIN g.recordings |->
                        LET r == g.heap[g.recordings[i]]
                        IN <<r.inputs, r.endTick, r.reachedGoal>>]]

\* C32: Game.update of game.js and Game.simulationTick of entities.js are
\* observationally equivalent: fed the same level and the same snapshot per
\* tick, after every tick they have equal localTick, globalTick, loopIndex,
\* levelComplete, bodies and world-entity flags, and recordings lists whose
\* entries have equal inputs, endTick and reachedGoal.
C32_SchedulersEquivalent ==
    Observed(Game) = Observed(GameJs_ReplayFrom(GameJs_init(currentLevel), sampled, 1))

\* C33: before the level is complete no ghost deactivates: every ghost's
\* recording comes from a failed attempt and holds exactly LOOP_TICKS
\* snapshots, localTick does not exceed LOOP_TICKS - 1, and every ghost is
\* active.
C33_GhostsStayActive ==
    ~levelComplete =>
        /\ localTick <= LOOP_TICKS - 1
        /\ \A i \in DOMAIN ghosts :
              LET r == heap[ghosts[i].recording]
              IN /\ ghosts[i].isActive
                 /\ ~r.reachedGoal
                 /\ Len(r.inputs) = LOOP_TICKS
                 /\ Dense(r.inputs)
                 /\ r.endTick = LOOP_TICKS

\* The last tick of a later attempt is about to run: the ghost has replayed
\* all snapshots but the last and has moved.
C33_Witness ==
    /\ ~levelComplete
    /\ localTick = LOOP_TICKS - 1
    /\ Len(ghosts) >= 1
    /\ ghosts[1].isActive
    /\ ghosts[1].x # currentLevel.spawnPoint.x

\* C34: restartLevel, called between frames from any session state, yields
\* a session with an empty recordings list, no ghosts, loopIndex = 1,
\* localTick = 0, levelComplete = false, a fresh empty live recording, the
\* player at the spawn point and a freshly built world-entity set; isPaused
\* and the accumulator are left as they were.
C34_RestartResets ==
    [][RestartLevel =>
          /\ recordings' = <<>>
          /\ ghosts' = <<>>
          /\ loopIndex' = 1
          /\ localTick' = 0
          /\ ~levelComplete'
          /\ heap'[currentRecording'] = createRecording(1)
          /\ \A i \in DOMAIN recordings : heap'[currentRecording'] # heap[recordings[i]]
          /\ player' = createPlayer(currentLevel.spawnPoint.x,
                                    currentLevel.spawnPoint.y)
          /\ entities' = createEntities(currentLevel)
          /\ currentLevel' = currentLevel
          /\ isPaused' = isPaused
          /\ accumulator' = accumulator]_vars

\* A paused, level-complete session of a later attempt between frames, with
\* time left in the accumulator and a pressed switch: restartLevel is about
\* to reset it.
C34_Witness ==
    /\ ~inFrame
    /\ isPaused
    /\ levelComplete
    /\ accumulator > 0
    /\ Len(ghosts) >= 1
    /\ Len(recordings) >= 2
    /\ entities # createEntities(currentLevel)
    /\ restartLevel(Game).recordings = <<>>
    /\ restartLevel(Game).ghosts = <<>>

====
